---- MODULE Spec2Model ----
(***************************************************************************)
(* Model of the FastMCP demo: the Tool Host (server.py: tools add and      *)
(* greet) and the Orchestrator (client_ollama.py: load_mcp_tools,          *)
(* execute_tool and main).  One run of main is followed from start to      *)
(* process exit.  The model backend (ollama.chat) and the reachability of  *)
(* the Tool Host are the environment: their outcomes are chosen            *)
(* nondeterministically from small sets.                                   *)
(***************************************************************************)
EXTENDS Integers, Sequences, FiniteSets, TLC

VARIABLES
    pc,          \* position of main / load_mcp_tools / execute_tool
    open,        \* number of MCPClient connections currently open
    tools,       \* ollama_tools returned by load_mcp_tools
    response,    \* first model response (response["message"])
    messages,    \* the conversation list built by main
    idx,         \* position of the for loop in response.tool_calls
    exc,         \* exception travelling from an async-with body to its handler
    tool_result, \* result of mcp.call_tool held by execute_tool until it returns
    final,       \* second model response (final["message"])
    stdout,      \* what the run printed, in order
    exitCode,    \* process exit status: 0 or 1, and -1 while the process runs
    hostReqs,    \* requests served by the Tool Host, in order
    modelReqs,   \* requests sent to the model backend, in order
    invoked,     \* calls of execute_tool made by main, in order
    fault        \* failures the environment injected in this run, in order

vars == << pc, open, tools, response, messages, idx, exc, tool_result, final, stdout,
           exitCode, hostReqs, modelReqs, invoked, fault >>

(***************************************************************************)
(* Bounds                                                                  *)
(***************************************************************************)
\* longest tool_calls list the model backend returns in the first response
MaxCalls == 2

(***************************************************************************)
(* Program constants                                                       *)
(***************************************************************************)
OLLAMA_MODEL == "llama3.2:latest"
MCP_SERVER_URL == "http://127.0.0.1:8080/mcp"
user_msg == "Please greet John and then add 150 + 75."

(***************************************************************************)
(* Values exchanged with the Tool Host.  Every value has the same record   *)
(* shape: t is its Python type, n its int, s its str, m its dict entries.  *)
(***************************************************************************)
IntV(n) == [t |-> "int", n |-> n, s |-> "", m |-> <<>>]
StrV(s) == [t |-> "str", n |-> 0, s |-> s, m |-> <<>>]
Entry(k, v) == [key |-> k, t |-> v.t, n |-> v.n, s |-> v.s]
MapV(entries) == [t |-> "dict", n |-> 0, s |-> "", m |-> entries]
NoneV == [t |-> "None", n |-> 0, s |-> "", m |-> <<>>]

Keys(v) == {v.m[k].key : k \in 1..Len(v.m)}
\* v[key] of a dict: the last entry with that key
Get(v, key) ==
    LET ks == {k \in 1..Len(v.m) : v.m[k].key = key}
        last == CHOOSE k \in ks : \A j \in ks : j <= k
    IN  v.m[last]

(***************************************************************************)
(* json.loads on the text of a tool call's arguments.  The text is a       *)
(* sequence of tokens; the decoder accepts a scalar or a flat object and   *)
(* raises JSONDecodeError (ok = FALSE) on anything else.                   *)
(***************************************************************************)
P(c) == [k |-> "punct", s |-> c, n |-> 0]
S(c) == [k |-> "string", s |-> c, n |-> 0]
N(i) == [k |-> "number", s |-> "", n |-> i]

Scalar(tok) == IF tok.k = "number" THEN IntV(tok.n) ELSE StrV(tok.s)
Decoded(v) == [ok |-> TRUE, val |-> v]
JSONDecodeError == [ok |-> FALSE, val |-> NoneV]

RECURSIVE ParseMembers(_, _, _)
ParseMembers(toks, pos, acc) ==
    IF pos + 3 > Len(toks) THEN JSONDecodeError
    ELSE IF /\ toks[pos].k = "string"
            /\ toks[pos + 1] = P(":")
            /\ toks[pos + 2].k \in {"string", "number"}
         THEN LET acc2 == Append(acc, Entry(toks[pos].s, Scalar(toks[pos + 2])))
              IN  IF toks[pos + 3] = P("}")
                  THEN IF pos + 3 = Len(toks) THEN Decoded(MapV(acc2))
                       ELSE JSONDecodeError
                  ELSE IF toks[pos + 3] = P(",")
                       THEN ParseMembers(toks, pos + 4, acc2)
                       ELSE JSONDecodeError
         ELSE JSONDecodeError

json_loads(toks) ==
    IF Len(toks) = 0 THEN JSONDecodeError
    ELSE IF toks[1] = P("{")
         THEN IF Len(toks) = 2 /\ toks[2] = P("}") THEN Decoded(MapV(<<>>))
              ELSE ParseMembers(toks, 2, <<>>)
         ELSE IF Len(toks) = 1 /\ toks[1].k \in {"string", "number"}
              THEN Decoded(Scalar(toks[1]))
              ELSE JSONDecodeError

\* tool_call["function"]["arguments"]: a mapping, or a str holding JSON text
DictArgs(v) == [isStr |-> FALSE, val |-> v, text |-> <<>>]
StrArgs(toks) == [isStr |-> TRUE, val |-> NoneV, text |-> toks]

(***************************************************************************)
(* Tool Host (server.py)                                                   *)
(***************************************************************************)
\* a slip of the operator in add
add_Sub(a, b) == a - b

add(a, b) == a + b

greet(name) == "Hello, " \o name \o "!"

\* the tools registered with @mcp.tool, with the parameters of their schemas
Registered ==
    << [name |-> "add", description |-> "Add two numbers",
        params |-> << [name |-> "a", type |-> "int"], [name |-> "b", type |-> "int"] >>],
       [name |-> "greet", description |-> "",
        params |-> << [name |-> "name", type |-> "str"] >>] >>

RegisteredNames == {Registered[k].name : k \in 1..Len(Registered)}

Lookup(name) == Registered[CHOOSE k \in 1..Len(Registered) : Registered[k].name = name]

\* the arguments are a mapping that gives every declared parameter its type
ValidArguments(tool, arguments) ==
    /\ arguments.t = "dict"
    /\ Keys(arguments) = {tool.params[k].name : k \in 1..Len(tool.params)}
    /\ \A k \in 1..Len(tool.params) :
           Get(arguments, tool.params[k].name).t = tool.params[k].type

ToolOk(v) == [ok |-> TRUE, value |-> v, error |-> ""]
ToolError(msg) == [ok |-> FALSE, value |-> NoneV, error |-> msg]

\* a Tool Host that does not look the name up and answers an unknown tool with success
call_tool_NoLookup(name, arguments) ==
    IF name = "add" /\ ValidArguments(Lookup("add"), arguments)
    THEN ToolOk(IntV(add(Get(arguments, "a").n, Get(arguments, "b").n)))
    ELSE IF name = "greet" /\ ValidArguments(Lookup("greet"), arguments)
         THEN ToolOk(StrV(greet(Get(arguments, "name").s)))
         ELSE IF name \in RegisteredNames THEN ToolError("Input validation error")
              ELSE ToolOk(NoneV)

\* the Tool Host's answer to "invoke tool by name with arguments"
call_tool(name, arguments) ==
    IF name \notin RegisteredNames THEN ToolError("Unknown tool: " \o name)
    ELSE IF ~ValidArguments(Lookup(name), arguments)
         THEN ToolError("Input validation error")
         ELSE IF name = "add"
              THEN ToolOk(IntV(add(Get(arguments, "a").n, Get(arguments, "b").n)))
              ELSE ToolOk(StrV(greet(Get(arguments, "name").s)))

\* the Tool Host's answer to "list available tools"
list_tools == Registered

(***************************************************************************)
(* Orchestrator data (client_ollama.py)                                    *)
(***************************************************************************)
\* execute_tool's return value: the CallToolResult, or the dict {"error": str(e)}
CallToolResult(v) == [isDict |-> FALSE, error |-> "", data |-> v]
ErrorDict(msg) == [isDict |-> TRUE, error |-> msg, data |-> NoneV]
NoResult == [isDict |-> FALSE, error |-> "", data |-> NoneV]

\* message contents: plain text, json.dumps(dict) or str(object)
Text(t) == [fmt |-> "text", text |-> t, of |-> NoResult]
ToolContent(result) ==
    IF result.isDict
    THEN [fmt |-> "json.dumps", text |-> "", of |-> result]
    ELSE [fmt |-> "str", text |-> "", of |-> result]

UserMessage ==
    [role |-> "user", content |-> Text(user_msg),
     has_tool_calls |-> FALSE, tool_calls |-> <<>>]
ModelMessage(c, has, calls) ==
    [role |-> "assistant", content |-> Text(c),
     has_tool_calls |-> has, tool_calls |-> calls]
ToolMessage(result) ==
    [role |-> "tool", content |-> ToolContent(result),
     has_tool_calls |-> FALSE, tool_calls |-> <<>>]
NoMessage == ModelMessage("", FALSE, <<>>)

\* the conversion of load_mcp_tools to the Ollama tool format
OllamaTool(tool) ==
    [type |-> "function",
     function |-> [name |-> tool.name, description |-> tool.description,
                   parameters |-> tool.params]]
OllamaTools(tools_list) == [k \in 1..Len(tools_list) |-> OllamaTool(tools_list[k])]

ToolCall(name, arguments) == [name |-> name, arguments |-> arguments]

\* a test for the key only, which lets an empty tool_calls list through
NoToolCalls_AbsentOnly(message) == ~message.has_tool_calls

\* not response.get("message", {}).get("tool_calls")
NoToolCalls(message) == ~message.has_tool_calls \/ message.tool_calls = <<>>

\* the arguments main passes to execute_tool, after the isinstance(args, str) step
ParsedArgs(arguments) ==
    IF arguments.isStr THEN json_loads(arguments.text) ELSE Decoded(arguments.val)

Out(tag, text) == [tag |-> tag, text |-> text]

(***************************************************************************)
(* Environment: what the model backend may answer                          *)
(***************************************************************************)
ToolCallChoices ==
    { ToolCall("greet", DictArgs(MapV(<< Entry("name", StrV("John")) >>))),
      ToolCall("add", DictArgs(MapV(<< Entry("a", IntV(150)), Entry("b", IntV(75)) >>))),
      ToolCall("add", StrArgs(<< P("{"), S("a"), P(":"), N(-7), P(","),
                                 S("b"), P(":"), N(7), P("}") >>)),
      ToolCall("add", StrArgs(<< P("{"), S("a"), P(":"), N(150) >>)),
      ToolCall("greet", StrArgs(<< S("John") >>)),
      ToolCall("add", DictArgs(MapV(<< Entry("name", StrV("John")) >>))),
      ToolCall("mul", DictArgs(MapV(<< Entry("a", IntV(2)), Entry("b", IntV(3)) >>))) }

SeqsUpTo(set, n) == UNION {[1..k -> set] : k \in 0..n}

FirstResponses ==
    {ModelMessage(c, has, <<>>) : c \in {"", "It is 225."}, has \in BOOLEAN}
    \cup {ModelMessage("", TRUE, calls) :
              calls \in SeqsUpTo(ToolCallChoices, MaxCalls) \ {<<>>}}

FinalResponses ==
    { ModelMessage("Hello, John! The sum is 225.", FALSE, <<>>),
      ModelMessage("", TRUE,
                   << ToolCall("add", DictArgs(MapV(<< Entry("a", IntV(1)),
                                                       Entry("b", IntV(1)) >>))) >>) }

ChatRequest(msgs, tool_list) ==
    [model |-> OLLAMA_MODEL, messages |-> msgs, tools |-> tool_list]
\* a request the Tool Host served, with the answer it gave (the answer to
\* list_tools is the tool list, kept in tools)
ListRequest ==
    [op |-> "list_tools", name |-> "", arguments |-> NoneV, reply |-> ToolOk(NoneV)]
CallRequest(name, arguments) ==
    [op |-> "call_tool", name |-> name, arguments |-> arguments,
     reply |-> call_tool(name, arguments)]

(***************************************************************************)
(* Init: the process has started and asyncio.run(main()) is about to run   *)
(***************************************************************************)
Init ==
    /\ pc = "main"
    /\ open = 0
    /\ tools = <<>>
    /\ response = NoMessage
    /\ messages = <<>>
    /\ idx = 0
    /\ exc = ""
    /\ tool_result = NoResult
    /\ final = NoMessage
    /\ stdout = <<>>
    /\ exitCode = -1
    /\ hostReqs = <<>>
    /\ modelReqs = <<>>
    /\ invoked = <<>>
    /\ fault = <<>>

(***************************************************************************)
(* load_mcp_tools                                                          *)
(***************************************************************************)
\* the except branch of load_mcp_tools: report, then sys.exit(1)
LoadExceptLines(e) ==
    << Out("ERROR connecting to FastMCP server: {e}", e),
       Out("Make sure the FastMCP server is running at {MCP_SERVER_URL}", MCP_SERVER_URL),
       Out("  python mcp_server.py", "") >>

\* an exception nobody catches: the interpreter writes the traceback and exits 1
TracebackLines(e) == << Out("Traceback (most recent call last)", e) >>

\* __aexit__ of "async with MCPClient(...)": the connection is closed
Release(n) == n - 1

\* main calls load_mcp_tools, which enters "async with MCPClient(MCP_SERVER_URL)"
LoadConnect ==
    /\ pc = "main"
    /\ \/ /\ open' = open + 1
          /\ pc' = "load_list"
          /\ stdout' = Append(stdout, Out("Loading MCP tools...", ""))
          /\ UNCHANGED << exitCode, fault >>
       \/ /\ fault' = Append(fault, "tool_host_unreachable_at_startup")
          /\ stdout' = Append(stdout, Out("Loading MCP tools...", ""))
                          \o LoadExceptLines("ConnectError")
          /\ exitCode' = 1
          /\ pc' = "exited"
          /\ UNCHANGED open
    /\ UNCHANGED << tools, response, messages, idx, exc, tool_result, final, hostReqs,
                    modelReqs, invoked >>

\* await mcp.list_tools() and the conversion loop
LoadList ==
    /\ pc = "load_list"
    /\ \/ /\ hostReqs' = Append(hostReqs, ListRequest)
          /\ tools' = OllamaTools(list_tools)
          /\ pc' = "load_aexit"
          /\ UNCHANGED << exc, fault >>
       \/ /\ fault' = Append(fault, "tool_host_unreachable_at_startup")
          /\ exc' = "ReadError"
          /\ pc' = "load_aexit_exc"
          /\ UNCHANGED << hostReqs, tools >>
    /\ UNCHANGED << open, response, messages, idx, tool_result, final, stdout, exitCode,
                    modelReqs, invoked >>

\* the async with block ends normally; load_mcp_tools returns and main prints the tools
LoadAExit ==
    /\ pc = "load_aexit"
    /\ open' = Release(open)
    /\ stdout' = stdout \o << Out("Loaded {len(tools)} tools:", "") >>
                        \o [k \in 1..Len(tools) |-> Out("  - {name}: {description}",
                                                        tools[k].function.name)]
                        \o << Out("User: {user_msg}", user_msg) >>
    /\ pc' = "first_chat"
    /\ UNCHANGED << tools, response, messages, idx, exc, tool_result, final, exitCode,
                    hostReqs, modelReqs, invoked, fault >>

\* load_mcp_tools swallowing the failure: it returns an empty list and main goes on
LoadAExitExc_Continue ==
    /\ pc = "load_aexit_exc"
    /\ open' = Release(open)
    /\ stdout' = stdout \o LoadExceptLines(exc)
    /\ pc' = "first_chat"
    /\ UNCHANGED << tools, response, messages, idx, exc, tool_result, final, exitCode,
                    hostReqs, modelReqs, invoked, fault >>

\* the async with block ends by an exception, which the except branch handles
LoadAExitExc ==
    /\ pc = "load_aexit_exc"
    /\ open' = Release(open)
    /\ stdout' = stdout \o LoadExceptLines(exc)
    /\ exitCode' = 1
    /\ pc' = "exited"
    /\ UNCHANGED << tools, response, messages, idx, exc, tool_result, final, hostReqs,
                    modelReqs, invoked, fault >>

(***************************************************************************)
(* main: first call to the model                                           *)
(***************************************************************************)
\* where main continues when the for loop is at position i of calls
AfterBody(calls, i) == IF i > Len(calls) THEN "final_chat" ELSE "loop"

FirstChatExceptLines(e) ==
    << Out("ERROR calling Ollama: {e}", e),
       Out("Make sure Ollama is running and model '{OLLAMA_MODEL}' is installed:",
           OLLAMA_MODEL),
       Out("  ollama pull {OLLAMA_MODEL}", OLLAMA_MODEL) >>

FirstChat ==
    /\ pc = "first_chat"
    /\ modelReqs' = Append(modelReqs, ChatRequest(<< UserMessage >>, tools))
    /\ \/ \E r \in FirstResponses :
            /\ response' = r
            /\ IF NoToolCalls(r)
               THEN /\ stdout' = stdout \o << Out("LLM answered directly:", ""),
                                              Out("{content}", r.content.text) >>
                    /\ exitCode' = 0
                    /\ pc' = "done"
                    /\ UNCHANGED << messages, idx >>
               ELSE /\ messages' = << UserMessage, r >>
                    /\ idx' = 1
                    /\ pc' = AfterBody(r.tool_calls, 1)
                    /\ UNCHANGED << stdout, exitCode >>
            /\ UNCHANGED fault
       \/ /\ fault' = Append(fault, "model_backend_failed_first")
          /\ stdout' = stdout \o FirstChatExceptLines("ConnectionError")
          /\ exitCode' = 1
          /\ pc' = "exited"
          /\ UNCHANGED << response, messages, idx >>
    /\ UNCHANGED << open, tools, exc, tool_result, final, hostReqs, invoked >>

(***************************************************************************)
(* main: the loop over response["message"]["tool_calls"], and execute_tool *)
(***************************************************************************)
tool_call == response.tool_calls[idx]
tool_name == tool_call.name
args == ParsedArgs(tool_call.arguments)

ExecExceptLines(e) == << Out("ERROR executing tool {tool_name}: {e}", e) >>

\* a loop that stays on the same tool call
NextIndex_Stay(i) == i

\* the for loop moves to the next tool call
NextIndex(i) == i + 1


\* execute_tool has returned result: main prints it and appends the tool message
Resume(out, result) ==
    /\ stdout' = out \o << Out("Tool result: {tool_result}", result.error) >>
    /\ messages' = Append(messages, ToolMessage(result))
    /\ idx' = NextIndex(idx)
    /\ pc' = AfterBody(response.tool_calls, NextIndex(idx))

\* top of the loop body: read the tool call and decode string arguments
ForToolCall ==
    /\ pc = "loop"
    /\ IF args.ok
       THEN /\ stdout' = stdout \o << Out("Tool requested: {tool_name}", tool_name),
                                      Out("Arguments: {args}", "") >>
            /\ invoked' = Append(invoked, [name |-> tool_name, arguments |-> args.val])
            /\ pc' = "exec_connect"
            /\ UNCHANGED exitCode
       ELSE /\ stdout' = stdout \o TracebackLines("JSONDecodeError")
            /\ exitCode' = 1
            /\ pc' = "exited"
            /\ UNCHANGED invoked
    /\ UNCHANGED << open, tools, response, messages, idx, exc, tool_result, final,
                    hostReqs, modelReqs, fault >>

\* execute_tool enters "async with MCPClient(MCP_SERVER_URL)"
ExecConnect ==
    /\ pc = "exec_connect"
    /\ \/ /\ open' = open + 1
          /\ pc' = "exec_call"
          /\ UNCHANGED << messages, idx, tool_result, stdout, fault >>
       \/ /\ fault' = Append(fault, "tool_host_unreachable")
          /\ tool_result' = ErrorDict("ConnectError")
          /\ Resume(stdout \o ExecExceptLines("ConnectError"), ErrorDict("ConnectError"))
          /\ UNCHANGED open
    /\ UNCHANGED << tools, response, exc, final, exitCode, hostReqs, modelReqs,
                    invoked >>

\* await mcp.call_tool(tool_name, arguments)
ExecCall ==
    /\ pc = "exec_call"
    /\ \/ LET r == CallRequest(tool_name, args.val).reply
          IN  /\ hostReqs' = Append(hostReqs, CallRequest(tool_name, args.val))
              /\ IF r.ok
                 THEN /\ tool_result' = CallToolResult(r.value)
                      /\ pc' = "exec_aexit"
                      /\ UNCHANGED exc
                 ELSE /\ exc' = r.error
                      /\ pc' = "exec_aexit_exc"
                      /\ UNCHANGED tool_result
              /\ UNCHANGED fault
       \/ /\ fault' = Append(fault, "tool_host_unreachable")
          /\ exc' = "ReadError"
          /\ pc' = "exec_aexit_exc"
          /\ UNCHANGED << hostReqs, tool_result >>
    /\ UNCHANGED << open, tools, response, messages, idx, final, stdout, exitCode,
                    modelReqs, invoked >>

\* the async with block ends normally and execute_tool returns the result
ExecAExit ==
    /\ pc = "exec_aexit"
    /\ open' = Release(open)
    /\ Resume(stdout, tool_result)
    /\ UNCHANGED << tools, response, exc, tool_result, final, exitCode, hostReqs,
                    modelReqs, invoked, fault >>

\* execute_tool without the context manager on the failure path: no release
ExecAExitExc_Leak ==
    /\ pc = "exec_aexit_exc"
    /\ tool_result' = ErrorDict(exc)
    /\ Resume(stdout \o ExecExceptLines(exc), ErrorDict(exc))
    /\ UNCHANGED << open, tools, response, exc, final, exitCode, hostReqs, modelReqs,
                    invoked, fault >>

\* the async with block ends by an exception; execute_tool returns {"error": str(e)}
ExecAExitExc ==
    /\ pc = "exec_aexit_exc"
    /\ open' = Release(open)
    /\ tool_result' = ErrorDict(exc)
    /\ Resume(stdout \o ExecExceptLines(exc), ErrorDict(exc))
    /\ UNCHANGED << tools, response, exc, final, exitCode, hostReqs, modelReqs,
                    invoked, fault >>

(***************************************************************************)
(* main: the results go back to the model for the final response           *)
(***************************************************************************)
FinalChat ==
    /\ pc = "final_chat"
    /\ modelReqs' = Append(modelReqs, ChatRequest(messages, <<>>))
    /\ \/ \E f \in FinalResponses :
            /\ final' = f
            /\ stdout' = stdout \o << Out("Final LLM response:", ""),
                                      Out("{content}", f.content.text) >>
            /\ exitCode' = 0
            /\ pc' = "done"
            /\ UNCHANGED fault
       \/ /\ fault' = Append(fault, "model_backend_failed_final")
          /\ stdout' = stdout \o TracebackLines("ConnectionError")
          /\ exitCode' = 1
          /\ pc' = "exited"
          /\ UNCHANGED final
    /\ UNCHANGED << open, tools, response, messages, idx, exc, tool_result,
                    hostReqs, invoked >>

Next ==
    \/ LoadConnect
    \/ LoadList
    \/ LoadAExit
    \/ LoadAExitExc
    \/ FirstChat
    \/ ForToolCall
    \/ ExecConnect
    \/ ExecCall
    \/ ExecAExit
    \/ ExecAExitExc
    \/ FinalChat

Spec == Init /\ [][Next]_vars

\* asyncio.run drives main to completion: an enabled step is eventually taken
FairSpec == Spec /\ WF_vars(Next)

(***************************************************************************)
(* Vocabulary of the properties                                            *)
(***************************************************************************)
Ended == pc \in {"done", "exited"}
Faults == {fault[k] : k \in 1..Len(fault)}
Printed == {stdout[k] : k \in 1..Len(stdout)}
Requested == response.tool_calls
\* the first model response arrived and asks for at least one tool call
HasToolCalls == response.has_tool_calls /\ Len(response.tool_calls) >= 1
\* the first model response arrived and asks for no tool call
AnsweredDirectly ==
    /\ Len(modelReqs) >= 1
    /\ "model_backend_failed_first" \notin Faults
    /\ ~HasToolCalls
Decodable(i) == ParsedArgs(Requested[i].arguments).ok
\* call i has been through the body of the loop
Processed(i) == Len(messages) >= 2 + i
ResultMessage(i) == messages[2 + i]
IsFailure(message) ==
    /\ message.role = "tool"
    /\ message.content.fmt = "json.dumps"
    /\ message.content.of.isDict
    /\ message.content.of.error # ""
\* execute_tool was called for call i, with the arguments of call i
InvokedAsRequested(i) ==
    /\ i <= Len(invoked)
    /\ invoked[i].name = Requested[i].name
    /\ Decodable(i)
    /\ invoked[i].arguments = ParsedArgs(Requested[i].arguments).val
\* message i of the tool results is what execute_tool can return for call i
ResultOfCall(i) ==
    /\ Processed(i)
    /\ \/ IsFailure(ResultMessage(i))
       \/ /\ call_tool(invoked[i].name, invoked[i].arguments).ok
          /\ ResultMessage(i) = ToolMessage(CallToolResult(
                 call_tool(invoked[i].name, invoked[i].arguments).value))
\* execute_tool for call i ended in its except branch: the Tool Host refused the
\* call, or the connection failed
ExecFailed(i) ==
    /\ i <= Len(invoked)
    /\ \/ ~call_tool(invoked[i].name, invoked[i].arguments).ok
       \/ Processed(i) /\ IsFailure(ResultMessage(i))
FinalRequestSent == Len(modelReqs) = 2
\* the final request carries the user message, the model message and all results
FinalRequestCarriesResults ==
    /\ FinalRequestSent
    /\ modelReqs[2].messages = messages
    /\ Len(messages) = 2 + Len(Requested)
    /\ messages[1] = UserMessage
    /\ messages[2] = response
CallRequests == {k \in 1..Len(hostReqs) : hostReqs[k].op = "call_tool"}
ListRequests == {k \in 1..Len(hostReqs) : hostReqs[k].op = "list_tools"}

(***************************************************************************)
(* C1                                                                      *)
(***************************************************************************)
\* C1: a run whose first model response holds N >= 1 tool calls ends having
\* called execute_tool exactly N times, in the order of the list, with N tool
\* messages appended, message i being the result of call i, and all of it
\* carried by the final model request.
C1_AllCallsInvokedInOrder ==
    (Ended /\ HasToolCalls) =>
        /\ Len(invoked) = Len(Requested)
        /\ \A i \in 1..Len(Requested) : InvokedAsRequested(i) /\ ResultOfCall(i)
        /\ FinalRequestCarriesResults

\* the part of C1 that the code keeps: whatever reaches the final model request
\* was invoked in order and recorded in order
C1_OrderWhenFinalRequestSent ==
    (HasToolCalls /\ (pc = "final_chat" \/ FinalRequestSent)) =>
        /\ Len(invoked) = Len(Requested)
        /\ \A i \in 1..Len(Requested) : InvokedAsRequested(i) /\ ResultOfCall(i)
        /\ FinalRequestSent => FinalRequestCarriesResults

(***************************************************************************)
(* C2                                                                      *)
(***************************************************************************)
\* C2: when execute_tool fails for call i, the failure is recorded as tool
\* message i, every later call is still invoked and the final model request
\* is sent.
C2_FailureDoesNotAbortTurn ==
    (Ended /\ HasToolCalls) =>
        \A i \in 1..Len(invoked) :
            ExecFailed(i) =>
                /\ Processed(i) /\ IsFailure(ResultMessage(i))
                /\ \A j \in (i + 1)..Len(Requested) : j <= Len(invoked)
                /\ FinalRequestSent

(***************************************************************************)
(* C3                                                                      *)
(***************************************************************************)
\* C3: a tool call whose string arguments cannot be decoded gets a failure
\* result in the conversation, the other calls are processed and the final
\* model request is sent.
C3_UndecodableArgsRecordedAsFailure ==
    (Ended /\ HasToolCalls) =>
        \A i \in 1..Len(Requested) :
            ~Decodable(i) =>
                /\ Processed(i) /\ IsFailure(ResultMessage(i))
                /\ Len(messages) = 2 + Len(Requested)
                /\ FinalRequestSent

(***************************************************************************)
(* C4                                                                      *)
(***************************************************************************)
StartupUnreachable == "tool_host_unreachable_at_startup" \in Faults

C4_Safe ==
    StartupUnreachable =>
        /\ modelReqs = <<>>
        /\ invoked = <<>>
        /\ CallRequests = {}
        /\ pc \in {"load_aexit_exc", "exited"}
        /\ pc = "exited" =>
              /\ exitCode = 1
              /\ \E e \in {"ConnectError", "ReadError"} :
                    \A k \in 1..Len(LoadExceptLines(e)) : LoadExceptLines(e)[k] \in Printed

\* C4: when the Tool Host is unreachable while load_mcp_tools fetches the tool
\* list, the run reports the cause and the remediation and exits with code 1,
\* and never sends a model request or invokes a tool.
C4_StartupUnreachableIsFatal ==
    /\ []C4_Safe
    /\ StartupUnreachable ~> (pc = "exited" /\ exitCode = 1)

\* the Tool Host accepted the connection and then failed the list request
C4_Witness ==
    /\ pc = "exited"
    /\ fault = << "tool_host_unreachable_at_startup" >>
    /\ exc = "ReadError"
    /\ exitCode = 1
    /\ modelReqs = <<>>

(***************************************************************************)
(* C5                                                                      *)
(***************************************************************************)
ModelBackendFailed ==
    \/ "model_backend_failed_first" \in Faults
    \/ "model_backend_failed_final" \in Faults
FinalAnswerPrinted == \E k \in 1..Len(stdout) : stdout[k].tag = "{content}"
RemediationPrinted ==
    \E k \in 1..Len(stdout) : stdout[k] = Out("  ollama pull {OLLAMA_MODEL}", OLLAMA_MODEL)

\* C5: whenever a model request of the run fails, the first or the final one,
\* the run reports the failure with remediation guidance, exits with a
\* non-zero code and prints no final answer.
C5_ModelFailureFatalAndReported ==
    ModelBackendFailed =>
        /\ Ended
        /\ exitCode # 0
        /\ RemediationPrinted
        /\ ~FinalAnswerPrinted

\* what the code keeps of C5: both failures end the run with a non-zero code and
\* without a final answer; the guidance is printed for the first request only
C5_ModelFailureFatal ==
    ModelBackendFailed =>
        /\ pc = "exited" /\ exitCode = 1
        /\ ~FinalAnswerPrinted
        /\ RemediationPrinted <=> "model_backend_failed_first" \in Faults

(***************************************************************************)
(* C6                                                                      *)
(***************************************************************************)
ContentReturned ==
    /\ pc = "done" /\ exitCode = 0
    /\ final = NoMessage
    /\ stdout[Len(stdout)] = Out("{content}", response.content.text)
    /\ Len(modelReqs) = 1

\* C6 as stated: with no tool calls in the first response the run prints the
\* model's content as the final answer, makes no second model request and
\* performs zero Tool Host requests.
C6_DirectAnswerNoHostRequest ==
    AnsweredDirectly => (ContentReturned /\ hostReqs = <<>>)

\* C6 amended: with no tool calls in the first response (tool_calls absent
\* or empty) the run prints the model's content unchanged as the final
\* answer, makes no second model request and invokes no tool; its only Tool
\* Host request is the list_tools request of startup.
C6_DirectAnswerNoInvocation ==
    AnsweredDirectly =>
        /\ ContentReturned
        /\ invoked = <<>>
        /\ hostReqs = << ListRequest >>

\* the model answered with an empty tool_calls list and some content
C6_Witness ==
    /\ pc = "done"
    /\ AnsweredDirectly
    /\ response.has_tool_calls /\ response.tool_calls = <<>>
    /\ stdout[Len(stdout)] = Out("{content}", "It is 225.")
    /\ hostReqs = << ListRequest >>

(***************************************************************************)
(* C7                                                                      *)
(***************************************************************************)
\* C7: a run makes at most two model requests, fetches the tool list at most
\* once, calls execute_tool at most once for each requested tool call (the
\* k-th call of execute_tool is for the k-th requested call, also after a
\* failure, and each reaches the Tool Host at most once), and never executes
\* the tool calls of the second model response.
C7_SingleRoundNoRetry ==
    /\ Len(modelReqs) <= 2
    /\ Cardinality(ListRequests) <= 1
    /\ Len(invoked) <= Len(Requested)
    /\ \A k \in 1..Len(invoked) : InvokedAsRequested(k)
    /\ Cardinality(CallRequests) <= Len(invoked)
    /\ final # NoMessage =>
          /\ pc = "done"
          /\ Len(invoked) = Len(Requested)
          /\ Len(messages) = 2 + Len(Requested)

\* two calls were requested, both failed, neither was repeated, and the second
\* model response asked for a tool call that was not run
C7_Witness ==
    /\ pc = "done"
    /\ Len(Requested) = 2
    /\ \A i \in 1..2 : IsFailure(ResultMessage(i))
    /\ "tool_host_unreachable" \in Faults
    /\ final.has_tool_calls /\ Len(final.tool_calls) = 1
    /\ Len(invoked) = 2

(***************************************************************************)
(* C8                                                                      *)
(***************************************************************************)
Unregistered(i) == invoked[i].name \notin RegisteredNames

\* C8: execute_tool for a name the Tool Host has not registered never gets a
\* success from the Tool Host and never ends the run: it returns the dict
\* {"error": str(e)} with a non-empty message, which main appends as the tool
\* message of that call before going on with the loop.
C8_UnregisteredToolFailsInsideBoundary ==
    /\ \A k \in CallRequests :
          hostReqs[k].name \notin RegisteredNames =>
              ~hostReqs[k].reply.ok /\ hostReqs[k].reply.error # ""
    /\ \A i \in 1..Len(invoked) :
          Unregistered(i) =>
              \/ /\ idx = i
                 /\ pc \in {"exec_connect", "exec_call", "exec_aexit_exc"}
                 /\ ~Processed(i)
              \/ /\ idx > i
                 /\ IsFailure(ResultMessage(i))
                 /\ pc \in {"loop", "exec_connect", "exec_call", "exec_aexit",
                            "exec_aexit_exc", "final_chat", "done", "exited"}
    /\ (pc = "exited" /\ HasToolCalls /\ ~FinalRequestSent) =>
          (idx <= Len(Requested) /\ ~Decodable(idx))

\* the Tool Host refused "mul", and the loop went on to run greet
C8_Witness ==
    /\ Len(invoked) = 2
    /\ Unregistered(1)
    /\ ResultMessage(1) = ToolMessage(ErrorDict("Unknown tool: mul"))
    /\ Processed(2)
    /\ ~IsFailure(ResultMessage(2))

(***************************************************************************)
(* C9                                                                      *)
(***************************************************************************)
IsAddRequest(k) ==
    /\ hostReqs[k].op = "call_tool" /\ hostReqs[k].name = "add"
    /\ hostReqs[k].arguments.t = "dict"
    /\ Keys(hostReqs[k].arguments) = {"a", "b"}
    /\ Get(hostReqs[k].arguments, "a").t = "int"
    /\ Get(hostReqs[k].arguments, "b").t = "int"
IsGreetRequest(k) ==
    /\ hostReqs[k].op = "call_tool" /\ hostReqs[k].name = "greet"
    /\ hostReqs[k].arguments.t = "dict"
    /\ Keys(hostReqs[k].arguments) = {"name"}
    /\ Get(hostReqs[k].arguments, "name").t = "str"

\* C9: every add request with integers a and b is answered with success and
\* a + b, and every greet request with a string name with success and
\* "Hello, " name "!", whatever was requested before; add(150, 75) gives 225
\* and greet("John") gives "Hello, John!".  The value reaches the conversation
\* as the tool message of the call.
C9_RegisteredToolsReturnCorrectValue ==
    /\ \A k \in 1..Len(hostReqs) :
          /\ IsAddRequest(k) =>
                /\ hostReqs[k].reply.ok
                /\ hostReqs[k].reply.value.t = "int"
                /\ hostReqs[k].reply.value.n =
                      Get(hostReqs[k].arguments, "a").n + Get(hostReqs[k].arguments, "b").n
                /\ (Get(hostReqs[k].arguments, "a").n = 150
                    /\ Get(hostReqs[k].arguments, "b").n = 75) =>
                       hostReqs[k].reply.value.n = 225
          /\ IsGreetRequest(k) =>
                /\ hostReqs[k].reply.ok
                /\ hostReqs[k].reply.value.t = "str"
                /\ hostReqs[k].reply.value.s =
                      "Hello, " \o Get(hostReqs[k].arguments, "name").s \o "!"
                /\ Get(hostReqs[k].arguments, "name").s = "John" =>
                       hostReqs[k].reply.value.s = "Hello, John!"
    /\ \A i \in 1..Len(invoked) :
          (Processed(i) /\ ~IsFailure(ResultMessage(i))) =>
              \E k \in CallRequests :
                  /\ hostReqs[k].name = invoked[i].name
                  /\ hostReqs[k].arguments = invoked[i].arguments
                  /\ ResultMessage(i) = ToolMessage(CallToolResult(hostReqs[k].reply.value))

\* the scenario of main's user message: greet John, then add 150 and 75
C9_Witness ==
    /\ pc = "done"
    /\ Len(invoked) = 2
    /\ ResultMessage(1) = ToolMessage(CallToolResult(StrV("Hello, John!")))
    /\ ResultMessage(2) = ToolMessage(CallToolResult(IntV(225)))
    /\ \E k \in CallRequests : IsAddRequest(k) /\ hostReqs[k].reply.value.n = 225

(***************************************************************************)
(* C10                                                                     *)
(***************************************************************************)
\* C10: at most one Tool Host connection is open at any time; one is open
\* exactly while load_mcp_tools or execute_tool is inside its async with
\* block, and none is open when main starts an execute_tool call or a model
\* request, also after a request on the connection failed, nor when the run
\* has ended.
C10_ConnectionsScopedPerRequest ==
    /\ open \in {0, 1}
    /\ open = 1 <=> pc \in {"load_list", "load_aexit", "load_aexit_exc",
                            "exec_call", "exec_aexit", "exec_aexit_exc"}
    /\ pc \in {"main", "first_chat", "loop", "exec_connect", "final_chat",
               "done", "exited"} => open = 0

\* a request failed on an open connection, a later one succeeded, and the run ended
C10_Witness ==
    /\ Ended
    /\ open = 0
    /\ Len(invoked) = 2
    /\ IsFailure(ResultMessage(1)) /\ ResultMessage(1).content.of.error = "ReadError"
    /\ Cardinality(CallRequests) = 1
    /\ FinalRequestSent
====
